---- MODULE Spec2Model ----
(***************************************************************************)
(* Model of aw_server/api.py: the heartbeat endpoint of ServerAPI, its     *)
(* module-level last_event_cache and the _last_event lookup.               *)
(*                                                                         *)
(* Time is counted in whole seconds.  An Event is a record                 *)
(* [id, timestamp, duration, data]; id = NoId is an event that carries no  *)
(* identity, and data = "none" marks Python's None.                        *)
(***************************************************************************)
EXTENDS Integers, FiniteSets, Sequences, TLC

\* ------------------------------------------------------------------ bounds
MaxTs == 1
MaxPulse == 1
MaxEvents == 2

\* timedelta(seconds=60) of _last_event
StaleWindow == 60

BucketIds == {"b1", "b2"}
Datas == {"x", "y"}
Timestamps == 0..MaxTs
PulseTimes == 0..MaxPulse
MaxNow == StaleWindow + MaxTs + 1
Failures == {"none", "get", "write"}

NoId == 0
None == [id |-> NoId, timestamp |-> 0, duration |-> 0, data |-> "none"]

\* A heartbeat as the caller submits it: no identity, zero duration.
Heartbeats == {[id |-> NoId, timestamp |-> t, duration |-> 0, data |-> d] :
                 t \in Timestamps, d \in Datas}

VARIABLES
  db,                \* self.db: bucket id -> the set of events stored in it
  nextId,            \* the identity the store assigns at its next insert
  assignsInPlace,    \* whether the store's insert writes the identity into the object passed
  last_event_cache,  \* the module's dict: bucket id -> Event
  now,               \* datetime.now(tz=utc), in seconds
  call,              \* what the last heartbeat() call was given, did and returned
  threads,           \* per request thread: where its heartbeat() call stands, and its locals
  round,             \* the store and the cache when the calls in flight were submitted
  testing,           \* self.testing
  lastTs,            \* the greatest timestamp of the heartbeats submitted in order so far
  first              \* the call that the call in `call` repeats, NoCall if it repeats none

vars == <<db, nextId, assignsInPlace, last_event_cache, now, call, threads, round,
          testing, lastTs, first>>

Max(a, b) == IF a >= b THEN a ELSE b

\* ------------------------------------------------------------- event store
\* db[bucket_id].get(limit=1, endtime=ts): the most recent event at or before
\* ts.  Events of equal timestamp have no order the caller can rely on, so
\* each of the latest ones is a possible answer; None stands for [].
StoreGet(events, ts) ==
  LET upto == {e \in events : e.timestamp <= ts}
  IN  IF upto = {} THEN {None}
      ELSE {e \in upto : \A f \in upto : f.timestamp <= e.timestamp}

\* db[bucket_id].replace(event_id, event): overwrite by identity; an identity
\* the bucket does not hold matches nothing.
StoreReplace(events, event_id, event) ==
  {IF e.id = event_id THEN [event EXCEPT !.id = event_id] ELSE e : e \in events}

\* db[bucket_id].insert(event): the stored event carries the identity nid.
StoreInsert(events, event, nid) == events \cup {[event EXCEPT !.id = nid]}

\* transforms.heartbeat_merge(last_event, heartbeat, pulsetime)
heartbeat_merge(last_event, heartbeat, pulsetime) ==
  LET lastEnd == last_event.timestamp + last_event.duration
  IN  IF heartbeat.timestamp <= lastEnd + pulsetime
      THEN [last_event EXCEPT
              !.duration = Max(lastEnd, heartbeat.timestamp) - last_event.timestamp]
      ELSE None

\* ------------------------------------------------------------ _last_event
\* line 120: the cached event ended more than 60 s before the wall clock
IsStale(e, n) == e.timestamp + e.duration < n - StaleWindow

CacheDrop(c, b) == [k \in DOMAIN c \ {b} |-> c[k]]
\* One slot for the whole process instead of one per bucket.
CacheSetSingleSlot(c, b, e) == [k \in {b} |-> e]

CacheSet(c, b, e) == [k \in DOMAIN c \cup {b} |-> IF k = b THEN e ELSE c[k]]

\* _last_event without the staleness test of lines 120-124.
CacheLookupKeepsStale(c, bucket_id, timestamp, n) ==
  IF bucket_id \in DOMAIN c /\ c[bucket_id].timestamp <= timestamp
  THEN [last |-> c[bucket_id], cache |-> c, evicted |-> FALSE]
  ELSE [last |-> None, cache |-> c, evicted |-> FALSE]

\* _last_event popping the entry in the branch of line 125 as well.
CacheLookupEvictsNewer(c, bucket_id, timestamp, n) ==
  IF bucket_id \in DOMAIN c
  THEN IF IsStale(c[bucket_id], n) \/ c[bucket_id].timestamp > timestamp
       THEN [last |-> None, cache |-> CacheDrop(c, bucket_id), evicted |-> TRUE]
       ELSE [last |-> c[bucket_id], cache |-> c, evicted |-> FALSE]
  ELSE [last |-> None, cache |-> c, evicted |-> FALSE]

\* Lines 117-128: what the cache gives for (bucket_id, timestamp) at wall
\* clock n, and the cache it leaves.  last = None sends the caller to the store.
CacheLookup(c, bucket_id, timestamp, n) ==
  IF bucket_id \in DOMAIN c
  THEN IF IsStale(c[bucket_id], n)
       THEN [last |-> None, cache |-> CacheDrop(c, bucket_id), evicted |-> TRUE]
       ELSE IF c[bucket_id].timestamp > timestamp
            THEN [last |-> None, cache |-> c, evicted |-> FALSE]
            ELSE [last |-> c[bucket_id], cache |-> c, evicted |-> FALSE]
  ELSE [last |-> None, cache |-> c, evicted |-> FALSE]

\* _last_event caching what the store read of lines 130-132 returned.
last_eventPopulates(d, c, bucket_id, timestamp, n, fail) ==
  LET lk == CacheLookup(c, bucket_id, timestamp, n)
  IN  IF lk.last # None
      THEN {[last |-> lk.last, cache |-> lk.cache, evicted |-> lk.evicted,
             source |-> "cache", failed |-> FALSE]}
      ELSE IF fail = "get"
           THEN {[last |-> None, cache |-> lk.cache, evicted |-> lk.evicted,
                  source |-> "store", failed |-> TRUE]}
           ELSE {[last |-> e,
                  cache |-> IF e = None THEN lk.cache
                            ELSE CacheSet(lk.cache, bucket_id, e),
                  evicted |-> lk.evicted,
                  source |-> "store", failed |-> FALSE] :
                   e \in StoreGet(d[bucket_id], timestamp)}

\* _last_event reading the store whatever the cache holds (line 130 without
\* its test).
last_eventAlwaysReads(d, c, bucket_id, timestamp, n, fail) ==
  LET lk == CacheLookup(c, bucket_id, timestamp, n)
  IN  IF fail = "get"
      THEN {[last |-> None, cache |-> lk.cache, evicted |-> lk.evicted,
             source |-> "store", failed |-> TRUE]}
      ELSE {[last |-> e, cache |-> lk.cache, evicted |-> lk.evicted,
             source |-> "store", failed |-> FALSE] :
              e \in StoreGet(d[bucket_id], timestamp)}

\* Lines 112-137 with the store read of lines 130-132: the possible results
\* [last, cache, evicted, source, failed].
last_event(d, c, bucket_id, timestamp, n, fail) ==
  LET lk == CacheLookup(c, bucket_id, timestamp, n)
  IN  IF lk.last # None
      THEN {[last |-> lk.last, cache |-> lk.cache, evicted |-> lk.evicted,
             source |-> "cache", failed |-> FALSE]}
      ELSE IF fail = "get"
           THEN {[last |-> None, cache |-> lk.cache, evicted |-> lk.evicted,
                  source |-> "store", failed |-> TRUE]}
           ELSE {[last |-> e, cache |-> lk.cache, evicted |-> lk.evicted,
                  source |-> "store", failed |-> FALSE] :
                   e \in StoreGet(d[bucket_id], timestamp)}

\* -------------------------------------------------------------- heartbeat
\* Line 176 without the comparison of the data.
MergedIgnoringData(last, heartbeat, pulsetime) ==
  IF last # None THEN heartbeat_merge(last, heartbeat, pulsetime) ELSE None

\* Lines 176-178 extending last_event whenever the data are equal.
MergedIgnoringWindow(last, heartbeat, pulsetime) ==
  IF last # None /\ last.data = heartbeat.data
  THEN [last EXCEPT !.duration =
          Max(last.timestamp + last.duration, heartbeat.timestamp) - last.timestamp]
  ELSE None

\* Lines 175-178: the merge of the heartbeat into last_event, or None when
\* there is no last event, the data differ or the pulse window has passed.
Merged(last, heartbeat, pulsetime) ==
  IF last # None /\ last.data = heartbeat.data
  THEN heartbeat_merge(last, heartbeat, pulsetime)
  ELSE None

\* Line 181 handing the store an event that starts where merged ends
\* instead of merged itself.
ReplaceBranchMovesStart(d, nid, c, bucket_id, last, merged, fail) ==
  IF fail = "write"
  THEN [db |-> d, nextId |-> nid, cache |-> c, status |-> "StoreError",
        ops |-> <<"replace">>, cacheSets |-> 0, result |-> None]
  ELSE [db |-> [d EXCEPT ![bucket_id] =
                  StoreReplace(@, last.id,
                               [merged EXCEPT !.timestamp = merged.timestamp + merged.duration,
                                              !.duration = 0])],
        nextId |-> nid,
        cache |-> CacheSet(c, bucket_id, merged),
        status |-> "ok", ops |-> <<"replace">>, cacheSets |-> 1,
        result |-> merged]

\* Lines 181-182 in the other order: merged is cached before the store
\* replaces last_event.
ReplaceBranchCachesFirst(d, nid, c, bucket_id, last, merged, fail) ==
  [db |-> IF fail = "write" THEN d
          ELSE [d EXCEPT ![bucket_id] = StoreReplace(@, last.id, merged)],
   nextId |-> nid,
   cache |-> CacheSet(c, bucket_id, merged),
   status |-> IF fail = "write" THEN "StoreError" ELSE "ok",
   ops |-> <<"replace">>,
   cacheSets |-> 1,
   result |-> IF fail = "write" THEN None ELSE merged]

\* Lines 181-183: replace last_event by merged, cache merged, return merged.
ReplaceBranch(d, nid, c, bucket_id, last, merged, fail) ==
  IF fail = "write"
  THEN [db |-> d, nextId |-> nid, cache |-> c, status |-> "StoreError",
        ops |-> <<"replace">>, cacheSets |-> 0, result |-> None]
  ELSE [db |-> [d EXCEPT ![bucket_id] = StoreReplace(@, last.id, merged)],
        nextId |-> nid,
        cache |-> CacheSet(c, bucket_id, merged),
        status |-> "ok", ops |-> <<"replace">>, cacheSets |-> 1,
        result |-> merged]

\* Lines 191-193: insert the heartbeat, cache the heartbeat object, return
\* it.  The object carries the stored identity only if the store wrote it
\* into the object it was passed (ip); the value insert returns is dropped.
InsertBranch(d, nid, ip, c, bucket_id, heartbeat, fail) ==
  IF fail = "write"
  THEN [db |-> d, nextId |-> nid, cache |-> c, status |-> "StoreError",
        ops |-> <<"insert">>, cacheSets |-> 0, result |-> None]
  ELSE LET obj == IF ip THEN [heartbeat EXCEPT !.id = nid] ELSE heartbeat
       IN  [db |-> [d EXCEPT ![bucket_id] = StoreInsert(@, heartbeat, nid)],
            nextId |-> nid + 1,
            cache |-> CacheSet(c, bucket_id, obj),
            status |-> "ok", ops |-> <<"insert">>, cacheSets |-> 1,
            result |-> obj]

\* Lines 181-193 without the return of line 183: the merge falls through to
\* the insert.
WriteFallsThrough(d, nid, ip, bucket_id, heartbeat, pulsetime, r, fail) ==
  LET merged == Merged(r.last, heartbeat, pulsetime)
      ins(d2, c2) == InsertBranch(d2, nid, ip, c2, bucket_id, heartbeat, fail)
  IN  IF merged # None
      THEN LET rep == ReplaceBranch(d, nid, r.cache, bucket_id, r.last, merged, fail)
           IN  IF rep.status # "ok" THEN rep
               ELSE [ins(rep.db, rep.cache) EXCEPT
                       !.ops = rep.ops \o @, !.cacheSets = rep.cacheSets + @]
      ELSE ins(d, r.cache)

\* Lines 174-193 after the lookup r: the write the handler makes.
Write(d, nid, ip, bucket_id, heartbeat, pulsetime, r, fail) ==
  LET merged == Merged(r.last, heartbeat, pulsetime)
  IN  IF merged # None
      THEN ReplaceBranch(d, nid, r.cache, bucket_id, r.last, merged, fail)
      ELSE InsertBranch(d, nid, ip, r.cache, bucket_id, heartbeat, fail)

ReadOps(r) == IF r.source = "store" THEN <<"get">> ELSE <<>>

\* heartbeat() with the bucket test made after the cache part of the lookup
\* instead of before the body (lines 25-27 after line 128).
heartbeatChecksLate(d, nid, ip, c, bucket_id, hb, pulsetime, n, fail) ==
  LET given == [bucket |-> bucket_id, heartbeat |-> hb, pulsetime |-> pulsetime,
                at |-> n, dbBefore |-> d, nextIdBefore |-> nid, cacheBefore |-> c]
      lk == CacheLookup(c, bucket_id, hb.timestamp, n)
  IN  IF bucket_id \notin DOMAIN d
      THEN {[db |-> d, nextId |-> nid, cache |-> lk.cache,
             call |-> [given |-> given, status |-> "NoSuchBucket", last |-> None,
                       source |-> "none", evicted |-> FALSE, lookupCache |-> c,
                       ops |-> <<>>, cacheSets |-> 0, result |-> None]]}
      ELSE {IF r.failed
            THEN [db |-> d, nextId |-> nid, cache |-> r.cache,
                  call |-> [given |-> given, status |-> "StoreError", last |-> None,
                            source |-> r.source, evicted |-> r.evicted,
                            lookupCache |-> r.cache,
                            ops |-> <<"get">>, cacheSets |-> 0, result |-> None]]
            ELSE LET w == Write(d, nid, ip, bucket_id, hb, pulsetime, r, fail)
                 IN  [db |-> w.db, nextId |-> w.nextId, cache |-> w.cache,
                      call |-> [given |-> given, status |-> w.status, last |-> r.last,
                                source |-> r.source, evicted |-> r.evicted,
                                lookupCache |-> r.cache,
                                ops |-> ReadOps(r) \o w.ops,
                                cacheSets |-> w.cacheSets, result |-> w.result]]
            : r \in last_event(d, c, bucket_id, hb.timestamp, n, fail)}

\* ServerAPI.heartbeat, lines 139-193 (check_bucket_exists, lines 22-28,
\* included): every outcome the call can have from store d, cache c and wall
\* clock n when the store fails at `fail`.
heartbeat(d, nid, ip, c, bucket_id, hb, pulsetime, n, fail) ==
  LET given == [bucket |-> bucket_id, heartbeat |-> hb, pulsetime |-> pulsetime,
                at |-> n, dbBefore |-> d, nextIdBefore |-> nid, cacheBefore |-> c]
  IN  IF bucket_id \notin DOMAIN d
      THEN {[db |-> d, nextId |-> nid, cache |-> c,
             call |-> [given |-> given, status |-> "NoSuchBucket", last |-> None,
                       source |-> "none", evicted |-> FALSE, lookupCache |-> c,
                       ops |-> <<>>, cacheSets |-> 0, result |-> None]]}
      ELSE {IF r.failed
            THEN [db |-> d, nextId |-> nid, cache |-> r.cache,
                  call |-> [given |-> given, status |-> "StoreError", last |-> None,
                            source |-> r.source, evicted |-> r.evicted,
                            lookupCache |-> r.cache,
                            ops |-> <<"get">>, cacheSets |-> 0, result |-> None]]
            ELSE LET w == Write(d, nid, ip, bucket_id, hb, pulsetime, r, fail)
                 IN  [db |-> w.db, nextId |-> w.nextId, cache |-> w.cache,
                      call |-> [given |-> given, status |-> w.status, last |-> r.last,
                                source |-> r.source, evicted |-> r.evicted,
                                lookupCache |-> r.cache,
                                ops |-> ReadOps(r) \o w.ops,
                                cacheSets |-> w.cacheSets, result |-> w.result]]
            : r \in last_event(d, c, bucket_id, hb.timestamp, n, fail)}

\* ------------------------------------------------------------ the program
NoCall ==
  [given |-> [bucket |-> "b1", heartbeat |-> None, pulsetime |-> 0, at |-> 0,
              dbBefore |-> [b \in {"b1"} |-> {}], nextIdBefore |-> 1,
              cacheBefore |-> <<>>],
   status |-> "init", last |-> None, source |-> "none", evicted |-> FALSE,
   lookupCache |-> <<>>, ops |-> <<>>, cacheSets |-> 0, result |-> None]

Threads == {1, 2}
Idle == [pc |-> "idle", bucket |-> "b1", heartbeat |-> None, pulsetime |-> 0,
         last |-> None, result |-> None]
NoRound == [db |-> [b \in {"b1"} |-> {}], nextId |-> 1, cache |-> <<>>]

\* A fresh server on a store that holds the bucket "b1"; the cache is empty
\* (line 19).
Init ==
  /\ db = [b \in {"b1"} |-> {}]
  /\ nextId = 1
  /\ assignsInPlace \in BOOLEAN
  /\ last_event_cache = <<>>
  /\ now = StaleWindow
  /\ call = NoCall
  /\ threads = [t \in Threads |-> Idle]
  /\ round = NoRound
  /\ testing = FALSE
  /\ lastTs = 0
  /\ first = NoCall

\* One heartbeat() call of a waiting request, from entry to return or raise.
Heartbeat(bucket_id, hb, pulsetime, fail) ==
  /\ call = NoCall
  /\ \E o \in heartbeat(db, nextId, assignsInPlace, last_event_cache,
                        bucket_id, hb, pulsetime, now, fail) :
       /\ o.nextId <= MaxEvents + 1
       /\ db' = o.db
       /\ nextId' = o.nextId
       /\ last_event_cache' = o.cache
       /\ call' = o.call
  /\ UNCHANGED <<assignsInPlace, now, threads, round, testing, lastTs, first>>

\* The caller has the returned event or the error; the server waits for the
\* next request.
Respond ==
  /\ call # NoCall
  /\ call' = NoCall
  /\ first' = NoCall
  /\ UNCHANGED <<db, nextId, assignsInPlace, last_event_cache, now, threads, round, testing, lastTs>>

\* The wall clock advances between requests.
Tick ==
  /\ call = NoCall
  /\ now < MaxNow
  /\ now' = now + 1
  /\ UNCHANGED <<db, nextId, assignsInPlace, last_event_cache, call, threads, round, testing, lastTs, first>>

Next ==
  \/ \E b \in BucketIds, hb \in Heartbeats, pt \in PulseTimes, fail \in Failures :
       Heartbeat(b, hb, pt, fail)
  \/ Respond
  \/ Tick

Spec == Init /\ [][Next]_vars

\* ---------------------------------------------- concurrent heartbeat calls
\* Two request threads run heartbeat() on the bucket "b1" at the same time.
\* The module takes no lock, so the threads interleave between the cache
\* lookup, the store read, the store write and the cache write of a call.

\* Both threads enter heartbeat() (line 140); the bucket exists.
Submit(hb1, pt1, hb2, pt2) ==
  /\ \A t \in Threads : threads[t].pc = "idle"
  /\ threads' = [t \in Threads |->
                   [Idle EXCEPT !.pc = "lookup",
                                !.heartbeat = IF t = 1 THEN hb1 ELSE hb2,
                                !.pulsetime = IF t = 1 THEN pt1 ELSE pt2]]
  /\ round' = [db |-> db, nextId |-> nextId, cache |-> last_event_cache]
  /\ UNCHANGED <<db, nextId, assignsInPlace, last_event_cache, now, call, testing, lastTs, first>>

\* Lines 117-128 of _last_event in thread t.
ThreadLookup(t) ==
  /\ threads[t].pc = "lookup"
  /\ LET lk == CacheLookup(last_event_cache, threads[t].bucket, threads[t].heartbeat.timestamp, now)
     IN  /\ last_event_cache' = lk.cache
         /\ threads' = [threads EXCEPT
                          ![t].last = lk.last,
                          ![t].pc = IF lk.last # None THEN "write" ELSE "read"]
  /\ UNCHANGED <<db, nextId, assignsInPlace, now, call, round, testing, lastTs, first>>

\* Lines 130-132 of _last_event in thread t: the store read.
ThreadRead(t) ==
  /\ threads[t].pc = "read"
  /\ \E e \in StoreGet(db[threads[t].bucket], threads[t].heartbeat.timestamp) :
       threads' = [threads EXCEPT ![t].last = e, ![t].pc = "write"]
  /\ UNCHANGED <<db, nextId, assignsInPlace, last_event_cache, now, call, round, testing, lastTs, first>>

\* Lines 175-181 or 191 in thread t: the decision and the store write.
ThreadStoreWrite(t) ==
  /\ threads[t].pc = "write"
  /\ LET w == Write(db, nextId, assignsInPlace, threads[t].bucket, threads[t].heartbeat,
                    threads[t].pulsetime,
                    [last |-> threads[t].last, cache |-> last_event_cache], "none")
     IN  /\ w.nextId <= MaxEvents + 1
         /\ db' = w.db
         /\ nextId' = w.nextId
         /\ threads' = [threads EXCEPT ![t].result = w.result, ![t].pc = "cache"]
  /\ UNCHANGED <<assignsInPlace, last_event_cache, now, call, round, testing, lastTs, first>>

\* Lines 182-183 or 192-193 in thread t: the cache write and the return.
ThreadCacheWrite(t) ==
  /\ threads[t].pc = "cache"
  /\ last_event_cache' = CacheSet(last_event_cache, threads[t].bucket, threads[t].result)
  /\ threads' = [threads EXCEPT ![t].pc = "done"]
  /\ UNCHANGED <<db, nextId, assignsInPlace, now, call, round, testing, lastTs, first>>

\* Both calls have returned; the threads are free for the next requests.
Return ==
  /\ \A t \in Threads : threads[t].pc = "done"
  /\ threads' = [t \in Threads |-> Idle]
  /\ round' = NoRound
  /\ UNCHANGED <<db, nextId, assignsInPlace, last_event_cache, now, call, testing, lastTs, first>>

NextConc ==
  \/ \E hb1 \in Heartbeats, hb2 \in Heartbeats, pt1 \in PulseTimes, pt2 \in PulseTimes :
       Submit(hb1, pt1, hb2, pt2)
  \/ \E t \in Threads : ThreadLookup(t)
  \/ \E t \in Threads : ThreadRead(t)
  \/ \E t \in Threads : ThreadStoreWrite(t)
  \/ \E t \in Threads : ThreadCacheWrite(t)
  \/ Return

SpecConc == Init /\ [][NextConc]_vars

\* --------------------------------- concurrent calls on different buckets
\* The store holds the buckets "b1" and "b2"; the cache is empty (line 19).
InitBothBuckets ==
  /\ db = [b \in BucketIds |-> {}]
  /\ nextId = 1
  /\ assignsInPlace \in BOOLEAN
  /\ last_event_cache = <<>>
  /\ now = StaleWindow
  /\ call = NoCall
  /\ threads = [t \in Threads |-> Idle]
  /\ round = NoRound
  /\ testing = FALSE
  /\ lastTs = 0
  /\ first = NoCall

\* Thread 1 enters heartbeat() for "b1" and thread 2 for "b2" (line 140).
SubmitOnBuckets(hb1, pt1, hb2, pt2) ==
  /\ \A t \in Threads : threads[t].pc = "idle"
  /\ threads' = [t \in Threads |->
                   [Idle EXCEPT !.pc = "lookup",
                                !.bucket = IF t = 1 THEN "b1" ELSE "b2",
                                !.heartbeat = IF t = 1 THEN hb1 ELSE hb2,
                                !.pulsetime = IF t = 1 THEN pt1 ELSE pt2]]
  /\ round' = [db |-> db, nextId |-> nextId, cache |-> last_event_cache]
  /\ UNCHANGED <<db, nextId, assignsInPlace, last_event_cache, now, call, testing, lastTs, first>>

\* The wall clock advances while no call is running.
TickBetweenRounds ==
  /\ \A t \in Threads : threads[t].pc = "idle"
  /\ Tick

NextIso ==
  \/ \E hb1 \in Heartbeats, hb2 \in Heartbeats, pt1 \in PulseTimes, pt2 \in PulseTimes :
       SubmitOnBuckets(hb1, pt1, hb2, pt2)
  \/ \E t \in Threads : ThreadLookup(t)
  \/ \E t \in Threads : ThreadRead(t)
  \/ \E t \in Threads : ThreadStoreWrite(t)
  \/ \E t \in Threads : ThreadCacheWrite(t)
  \/ Return
  \/ TickBetweenRounds

SpecIso == InitBothBuckets /\ [][NextIso]_vars

\* ------------------------------------------ buckets created and deleted
\* A server started in either mode on a store that holds the bucket "b1".
InitBuckets ==
  /\ db = [b \in {"b1"} |-> {}]
  /\ nextId = 1
  /\ assignsInPlace \in BOOLEAN
  /\ last_event_cache = <<>>
  /\ now = StaleWindow
  /\ call = NoCall
  /\ threads = [t \in Threads |-> Idle]
  /\ round = NoRound
  /\ testing \in BOOLEAN
  /\ lastTs = 0
  /\ first = NoCall

\* ServerAPI.create_bucket, lines 72-83: BucketExists is raised for a bucket
\* the store holds; otherwise the store gets the bucket, empty.  The bucket's
\* type, client, hostname and creation time play no part in heartbeat().
CreateBucket(bucket_id) ==
  /\ call = NoCall
  /\ bucket_id \notin DOMAIN db
  /\ db' = [b \in DOMAIN db \cup {bucket_id} |-> IF b = bucket_id THEN {} ELSE db[b]]
  /\ UNCHANGED <<nextId, assignsInPlace, last_event_cache, now, call, threads, round,
                 testing, lastTs, first>>

\* ServerAPI.delete_bucket, lines 85-94: NoSuchBucket (line 26) or
\* PermissionDenied (line 90) is raised and nothing changes; in testing mode
\* the store drops the bucket with its events.  last_event_cache is not
\* touched.
DeleteBucket(bucket_id) ==
  /\ call = NoCall
  /\ bucket_id \in DOMAIN db
  /\ testing
  /\ db' = [b \in DOMAIN db \ {bucket_id} |-> db[b]]
  /\ UNCHANGED <<nextId, assignsInPlace, last_event_cache, now, call, threads, round,
                 testing, lastTs, first>>

NextBuckets ==
  \/ \E b \in BucketIds, hb \in Heartbeats, pt \in PulseTimes, fail \in Failures :
       Heartbeat(b, hb, pt, fail)
  \/ Respond
  \/ Tick
  \/ \E b \in BucketIds : CreateBucket(b)
  \/ \E b \in BucketIds : DeleteBucket(b)

SpecBuckets == InitBuckets /\ [][NextBuckets]_vars

\* ------------------------------------------------- heartbeats sent in order
\* One heartbeat() call of a client whose heartbeats carry non-decreasing
\* timestamps.
HeartbeatInOrder(bucket_id, hb, pulsetime, fail) ==
  /\ call = NoCall
  /\ hb.timestamp >= lastTs
  /\ \E o \in heartbeat(db, nextId, assignsInPlace, last_event_cache,
                        bucket_id, hb, pulsetime, now, fail) :
       /\ o.nextId <= MaxEvents + 1
       /\ db' = o.db
       /\ nextId' = o.nextId
       /\ last_event_cache' = o.cache
       /\ call' = o.call
  /\ lastTs' = hb.timestamp
  /\ UNCHANGED <<assignsInPlace, now, threads, round, testing, first>>

NextInOrder ==
  \/ \E b \in BucketIds, hb \in Heartbeats, pt \in PulseTimes, fail \in Failures :
       HeartbeatInOrder(b, hb, pt, fail)
  \/ Respond
  \/ Tick

SpecInOrder == Init /\ [][NextInOrder]_vars

\* The client sends the heartbeat of the call that has just returned once
\* more, to the same bucket with the same pulsetime, before anything else
\* happens.
Resubmit ==
  /\ call.status = "ok"
  /\ first = NoCall
  /\ \E o \in heartbeat(db, nextId, assignsInPlace, last_event_cache,
                        call.given.bucket, call.given.heartbeat,
                        call.given.pulsetime, now, "none") :
       /\ db' = o.db
       /\ nextId' = o.nextId
       /\ last_event_cache' = o.cache
       /\ call' = o.call
  /\ first' = call
  /\ UNCHANGED <<assignsInPlace, now, threads, round, testing, lastTs>>

NextResubmit ==
  \/ \E b \in BucketIds, hb \in Heartbeats, pt \in PulseTimes, fail \in Failures :
       Heartbeat(b, hb, pt, fail)
  \/ Resubmit
  \/ Respond
  \/ Tick

SpecResubmit == Init /\ [][NextResubmit]_vars

\* ------------------------------------------------- the last call, observed
Ok == call.status = "ok"
B == call.given.bucket
H == call.given.heartbeat
PT == call.given.pulsetime
L == call.last
Before == call.given.dbBefore[B]
After == db[B]
CacheBefore == call.given.cacheBefore
Reached == call.status \in {"ok", "StoreError"}
Has(ops, op) == \E i \in 1..Len(ops) : ops[i] = op
Count(ops, S) == Cardinality({i \in 1..Len(ops) : ops[i] \in S})
Ids(events) == {e.id : e \in events}

\* The call inserted the heartbeat as one new zero-duration event under a
\* fresh identity and touched no stored event.
InsertedNew ==
  /\ Has(call.ops, "insert") /\ ~Has(call.ops, "replace")
  /\ Cardinality(After) = Cardinality(Before) + 1
  /\ Before \subseteq After
  /\ \E e \in After \ Before :
       /\ e.id \notin Ids(Before) /\ e.id # NoId
       /\ e.timestamp = H.timestamp /\ e.duration = 0 /\ e.data = H.data

\* ------------------------------------------------------------------ claims

\* C3: when the candidate last event L has the heartbeat's data and the
\* heartbeat lies in [L.timestamp, L.timestamp + L.duration + pulsetime], the
\* call replaces L's identity, inserts nothing, and the stored and returned
\* event is L extended to max(L's end, the heartbeat's timestamp).
C3_MergeInsideWindow ==
  (/\ Ok /\ L # None /\ L.data = H.data
   /\ L.timestamp <= H.timestamp
   /\ H.timestamp <= L.timestamp + L.duration + PT)
  => /\ Has(call.ops, "replace") /\ ~Has(call.ops, "insert")
     /\ Cardinality(After) = Cardinality(Before)
     /\ call.result.timestamp = L.timestamp
     /\ call.result.data = L.data
     /\ call.result.duration =
          Max(L.timestamp + L.duration, H.timestamp) - L.timestamp
     /\ \E e \in After : e.id = L.id /\ e = call.result

\* C4: when the candidate last event has other data than the heartbeat, the
\* call inserts the heartbeat as a new zero-duration event, issues no replace
\* and leaves every stored event as it was, whatever the timestamps and the
\* pulse window.
C4_NewEventOnDataChange ==
  (Ok /\ L # None /\ L.data # H.data) => InsertedNew

C4_Witness ==
  /\ Ok /\ L # None /\ L.data # H.data
  /\ H.timestamp <= L.timestamp + L.duration + PT

\* C5: when the heartbeat has the candidate's data but comes later than the
\* candidate's end plus the pulse window, it is inserted as a new event and
\* the candidate is neither replaced nor extended.
C5_NewEventOnWindowExceeded ==
  (/\ Ok /\ L # None /\ L.data = H.data
   /\ H.timestamp > L.timestamp + L.duration + PT)
  => InsertedNew

C5_Witness ==
  /\ Ok /\ L # None /\ L.data = H.data
  /\ H.timestamp > L.timestamp + L.duration + PT
  /\ L \in Before

\* The bucket's cache entry before the call was not stale and newer than the
\* heartbeat: the out-of-order case of line 125.
OutOfOrder ==
  /\ Reached /\ B \in DOMAIN CacheBefore
  /\ ~(CacheBefore[B].timestamp + CacheBefore[B].duration
         < call.given.at - StaleWindow)
  /\ CacheBefore[B].timestamp > H.timestamp

\* The candidate is what the store holds at or before the heartbeat: a stored
\* event of the greatest timestamp <= the heartbeat's, or none.
CandidateFromStore ==
  /\ call.source = "store"
  /\ Has(call.ops, "get")
  /\ IF L = None
     THEN \A e \in Before : e.timestamp > H.timestamp
     ELSE /\ L \in Before /\ L.timestamp <= H.timestamp
          /\ \A e \in Before : e.timestamp <= H.timestamp
                                 => e.timestamp <= L.timestamp

\* C6 as claimed: in the out-of-order case the candidate comes from the
\* store and the newer cache entry is still the bucket's entry after the call.
C6_OutOfOrderKeepsEntry ==
  (OutOfOrder /\ Ok)
  => /\ CandidateFromStore
     /\ B \in DOMAIN last_event_cache
     /\ last_event_cache[B] = CacheBefore[B]

\* C6 amended: in the out-of-order case the candidate comes from the store,
\* never from the cache, and the lookup does not evict the newer entry; a
\* call that fails leaves it the bucket's entry, a call that succeeds
\* overwrites it with the event the call wrote.
C6_OutOfOrderGuard ==
  OutOfOrder
  => /\ call.source = "store" /\ ~call.evicted
     /\ (Ok => /\ CandidateFromStore
               /\ B \in DOMAIN last_event_cache
               /\ last_event_cache[B] = call.result
               /\ last_event_cache[B] # CacheBefore[B])
     /\ (~Ok => last_event_cache = CacheBefore)

C6_Witness == OutOfOrder /\ Ok /\ L # None /\ Has(call.ops, "replace")

\* The bucket's cache entry before the call was stale at the call's wall clock.
StaleEntry ==
  /\ Reached /\ B \in DOMAIN CacheBefore
  /\ CacheBefore[B].timestamp + CacheBefore[B].duration
       < call.given.at - StaleWindow

\* C7: a lookup that finds the bucket's cache entry stale removes it and
\* takes the candidate from a store read, never from the cache.
C7_StalenessEviction ==
  StaleEntry
  => /\ call.evicted
     /\ call.source = "store"
     /\ Len(call.ops) >= 1 /\ call.ops[1] = "get"
     /\ (Has(call.ops, "insert") \/ Has(call.ops, "replace") => CandidateFromStore)
     /\ (~Ok => B \notin DOMAIN last_event_cache)

C7_Witness ==
  /\ StaleEntry /\ Ok
  /\ CacheBefore[B].timestamp <= H.timestamp
  /\ L # CacheBefore[B]

\* C8: a call in which a store operation failed raises that failure and
\* leaves the cache exactly as it was before the call.
C8_CacheUntouchedOnFailure ==
  call.status = "StoreError"
  => /\ call.result = None
     /\ last_event_cache = CacheBefore

\* C9: a successful call issues exactly one store mutation, an insert or a
\* replace, and writes the bucket's cache entry exactly once.
C9_OneMutationOneCacheWrite ==
  Ok => /\ Count(call.ops, {"insert", "replace"}) = 1
        /\ call.cacheSets = 1
        /\ Cardinality(After) =
             Cardinality(Before) + (IF Has(call.ops, "insert") THEN 1 ELSE 0)
        /\ Cardinality({e \in After : e \notin Before}) <= 1
        /\ B \in DOMAIN last_event_cache /\ last_event_cache[B] = call.result

C9_Witness == Ok /\ call.ops = <<"replace">> /\ After # Before

\* C10: after a successful call the returned event, the bucket's cache entry
\* and the event the store holds under that identity are the same event.
C10_AuthoritativeResult ==
  Ok => /\ B \in DOMAIN last_event_cache
        /\ last_event_cache[B] = call.result
        /\ call.result.id # NoId
        /\ \E e \in After : e.id = call.result.id /\ e = call.result

\* C1: the event a call returns and the store it leaves are those the same
\* call gives when the bucket's cache entry is dropped just before it, so
\* that the lookup goes to the store.
C1_CacheEquivalence ==
  Ok => \E o \in heartbeat(call.given.dbBefore, call.given.nextIdBefore,
                           assignsInPlace, CacheDrop(CacheBefore, B),
                           B, H, PT, call.given.at, "none") :
          /\ o.call.result = call.result
          /\ o.db = db

\* C8 amended: a call in which a store operation failed raises that failure,
\* leaves the store as it was and writes nothing into the cache: the cache is
\* as before the call, less the bucket's entry if the lookup found it stale.
C8_NoCacheWriteOnFailure ==
  call.status = "StoreError"
  => /\ call.result = None
     /\ call.cacheSets = 0
     /\ db = call.given.dbBefore
     /\ DOMAIN last_event_cache =
          (IF StaleEntry THEN DOMAIN CacheBefore \ {B} ELSE DOMAIN CacheBefore)
     /\ \A k \in DOMAIN last_event_cache : last_event_cache[k] = CacheBefore[k]

C8_Witness ==
  /\ call.status = "StoreError" /\ StaleEntry
  /\ call.ops = <<"get", "replace">>

\* The store and cache the two calls of the round leave when call a runs to
\* its return before call b starts.
SerialOrder(a, b) ==
  UNION {{<<o2.db, o2.cache>> :
            o2 \in heartbeat(o1.db, o1.nextId, assignsInPlace, o1.cache, "b1",
                             threads[b].heartbeat, threads[b].pulsetime, now, "none")} :
         o1 \in heartbeat(round.db, round.nextId, assignsInPlace, round.cache, "b1",
                          threads[a].heartbeat, threads[a].pulsetime, now, "none")}

\* C2: when two concurrent calls on one bucket have both returned, the store
\* and the cache entry are those one of the two serial orders of the calls
\* leaves.
C2_PerBucketSerialization ==
  (\A t \in Threads : threads[t].pc = "done")
  => <<db, last_event_cache>> \in SerialOrder(1, 2) \cup SerialOrder(2, 1)

\* C11: a call for a bucket the store does not hold raises NoSuchBucket
\* before any lookup and leaves the store and the cache as they were: no
\* read, no insert, no replace, no cache write, no eviction.
C11_NoSuchBucket ==
  /\ (call.status # "init" /\ B \notin DOMAIN call.given.dbBefore)
       => /\ call.status = "NoSuchBucket"
          /\ call.ops = <<>> /\ call.cacheSets = 0 /\ ~call.evicted
          /\ call.source = "none" /\ call.result = None
          /\ db = call.given.dbBefore
          /\ nextId = call.given.nextIdBefore
          /\ last_event_cache = CacheBefore
  /\ call.status = "NoSuchBucket" => B \notin DOMAIN call.given.dbBefore

\* The bucket was deleted with its entry still cached, and the entry is stale.
C11_Witness ==
  /\ call.status = "NoSuchBucket"
  /\ B \in DOMAIN CacheBefore
  /\ CacheBefore[B].timestamp + CacheBefore[B].duration
       < call.given.at - StaleWindow

\* C12: the lookup never populates the cache: the cache _last_event leaves
\* is the cache it found, less the bucket's entry if that was stale; what the
\* store read returned is not written into it.
C12_LookupNeverPopulates ==
  Reached
  => /\ DOMAIN call.lookupCache =
          (IF StaleEntry THEN DOMAIN CacheBefore \ {B} ELSE DOMAIN CacheBefore)
     /\ \A k \in DOMAIN call.lookupCache : call.lookupCache[k] = CacheBefore[k]

C12_Witness ==
  /\ Reached /\ call.source = "store" /\ L # None
  /\ B \notin DOMAIN call.lookupCache

\* The bucket's cache entry before the call was not stale and not newer than
\* the heartbeat.
CacheHit ==
  /\ B \in DOMAIN CacheBefore
  /\ CacheBefore[B].timestamp + CacheBefore[B].duration
       >= call.given.at - StaleWindow
  /\ CacheBefore[B].timestamp <= H.timestamp

\* C13: with a cache entry that is not stale and not newer than the
\* heartbeat the lookup returns exactly that entry and reads no store; the
\* store is read only when there is no entry, the entry is stale or it is
\* newer than the heartbeat.
C13_CacheHitAvoidsStore ==
  Reached
  => /\ CacheHit => /\ L = CacheBefore[B]
                    /\ call.source = "cache"
                    /\ ~Has(call.ops, "get")
     /\ Has(call.ops, "get")
          => \/ B \notin DOMAIN CacheBefore
             \/ CacheBefore[B].timestamp + CacheBefore[B].duration
                  < call.given.at - StaleWindow
             \/ CacheBefore[B].timestamp > H.timestamp

C13_Witness ==
  /\ Ok /\ CacheHit
  /\ \E e \in Before : e.timestamp <= H.timestamp /\ e # L

\* C14: when the heartbeats of a bucket arrive serially with non-decreasing
\* timestamps, after every successful call the bucket's cache entry is the
\* event that call wrote and is a stored event of the bucket of the greatest
\* timestamp.
C14_InOrderCacheExact ==
  Ok => /\ B \in DOMAIN last_event_cache
        /\ last_event_cache[B] = call.result
        /\ last_event_cache[B] \in After
        /\ \A e \in After : e.timestamp <= last_event_cache[B].timestamp

C16_ResubmissionIdempotent ==
  first # NoCall
  => /\ Ok
     /\ db = call.given.dbBefore
     /\ Has(call.ops, "replace") /\ ~Has(call.ops, "insert")
     /\ call.result.timestamp = first.result.timestamp
     /\ call.result.duration = first.result.duration
     /\ call.result.data = first.result.data

CacheEntry(c, b) == IF b \in DOMAIN c THEN c[b] ELSE None

\* What the call of thread t leaves in its own bucket and returns when it runs
\* alone from the beginning of the round; the store numbers a new event with
\* the next identity, whichever call of the round asks first.
Alone(t) ==
  LET b == threads[t].bucket
  IN  UNION {{<<o.db[b], CacheEntry(o.cache, b), o.call.result>> :
                o \in heartbeat(round.db, nid, assignsInPlace, round.cache, b,
                                threads[t].heartbeat, threads[t].pulsetime,
                                now, "none")} :
             nid \in {round.nextId, round.nextId + 1}}

\* C17: with concurrent calls on different buckets, a bucket's stored events
\* and cache entry are untouched until its own call starts, and once its call
\* has returned they and the result are those the call leaves when run alone,
\* up to the identity the store assigns.
C17_BucketIsolation ==
  \A t \in Threads :
    LET b == threads[t].bucket
    IN  /\ threads[t].pc = "lookup"
            => /\ db[b] = round.db[b]
               /\ CacheEntry(last_event_cache, b) = CacheEntry(round.cache, b)
        /\ threads[t].pc = "done"
            => <<db[b], CacheEntry(last_event_cache, b), threads[t].result>> \in Alone(t)

\* The call on "b2" has returned and the call on "b1" is between its store
\* write and its cache write; both have changed their buckets.
C17_Witness ==
  /\ threads[1].pc = "cache" /\ threads[2].pc = "done"
  /\ threads[1].bucket # threads[2].bucket
  /\ db["b1"] # round.db["b1"]
  /\ db["b2"] # round.db["b2"]

\* C18: a successful call on a bucket that holds no events (a new bucket, or
\* one deleted and created again) finds no last event and inserts the
\* heartbeat as the bucket's only event; it merges against nothing and issues
\* no replace.
C18_CacheDoesNotOutliveBucket ==
  (Ok /\ Before = {})
  => /\ L = None
     /\ Has(call.ops, "insert") /\ ~Has(call.ops, "replace")
     /\ Cardinality(After) = 1

====
